---- MODULE Spec2Model ----
(***************************************************************************)
(* Model of the two CPU-scheduling simulators of the repository:           *)
(*   src/FCFS/FCFS.py                       simulate_fcfs_algorithm        *)
(*   src/PriorityScheduling/priority_np.py  simulate_priority_np_algorithm *)
(*                                                                         *)
(* A process table is a pandas DataFrame with the default RangeIndex: a    *)
(* function from the row labels 0..n-1 to rows.  sort_values returns the   *)
(* rows in a new order but every row keeps its label.                      *)
(***************************************************************************)
EXTENDS Integers, Sequences, FiniteSets, TLC

\* ------------------------------------------------------------------------
\* Bounds of the model
\* ------------------------------------------------------------------------
MaxRows == 3        \* FCFS tables have 0..MaxRows rows
MaxProcs == 2       \* Priority tables have 0..MaxProcs rows
MaxArrival == 2     \* largest arrival_time of a row
MaxRuns == 2        \* calls of simulate_fcfs_algorithm in one Python process

BurstTimes == {1, 2}
Priorities == {1, 2}
\* FCFS rows may carry the invalid arrival_time -1
FcfsArrivalTimes == (-1)..MaxArrival
ArrivalTimes == 0..MaxArrival

\* ------------------------------------------------------------------------
\* Helpers shared by both simulators
\* ------------------------------------------------------------------------

\* The function with the empty domain: an empty list, dict or DataFrame.
Empty == [x \in {} |-> 0]

\* Python range(a, b)
Range(a, b) == a..(b - 1)

RECURSIVE SeqSum(_, _)
\* sum of f over the labels listed in the sequence s
SeqSum(f, s) == IF s = <<>> THEN 0 ELSE f[Head(s)] + SeqSum(f, Tail(s))

RECURSIVE ListSum(_, _)
\* Python sum(list) of a list of length k indexed 0..k-1
ListSum(f, k) == IF k = 0 THEN 0 ELSE f[k - 1] + ListSum(f, k - 1)

\* The time-unit scale factor, an external collaborator (cpu_time_unit.py is
\* not part of the sources): a positive scalar.
get_cpu_time_unit == 1

\* "%.<digits>f" % (num / den) for den > 0, as the integer number of
\* 10^-digits units printed.  Python prints the decimal nearest to the double;
\* an exact tie is only possible for a dyadic value, which the double holds
\* exactly and which is then rounded half to even.  (A non-dyadic tie needs a
\* reduced denominator of at least 40 for two digits and 160 for four, which
\* no table within the bounds produces.)
RoundHalfEven(num, den) ==
    LET q == num \div den
        r == num - q * den
    IN  IF 2 * r < den THEN q
        ELSE IF 2 * r > den THEN q + 1
        ELSE IF q % 2 = 0 THEN q ELSE q + 1

Format2(num, den) == RoundHalfEven(100 * num, den)
Format4(num, den) == RoundHalfEven(10000 * num, den)

RECURSIVE InsertByArrival(_, _, _)
\* insertion of label l into the label sequence s already ordered by
\* arrival_time, after every label whose arrival is not greater
InsertByArrival(data, l, s) ==
    IF s = <<>> THEN <<l>>
    ELSE IF data[Head(s)].arrival_time <= data[l].arrival_time
         THEN <<Head(s)>> \o InsertByArrival(data, l, Tail(s))
         ELSE <<l>> \o s

RECURSIVE SortPrefix(_, _)
SortPrefix(data, k) ==
    IF k = 0 THEN <<>>
    ELSE InsertByArrival(data, k - 1, SortPrefix(data, k - 1))

\* data.sort_values('arrival_time'): the row labels in ascending arrival
\* order.  For the short tables of the model pandas' default sort is an
\* insertion sort, which keeps rows of equal arrival in row order.
sort_values(data) == SortPrefix(data, Cardinality(DOMAIN data))

\* ------------------------------------------------------------------------
\* FCFS.py
\* ------------------------------------------------------------------------

VARIABLES
    fcfs,   \* module FCFS: the global idle_time and the locals of the call
    np,     \* module priority_np: the globals idle_time, n and the locals
    runs    \* number of simulate_* calls made so far in this Python process

vars == <<fcfs, np, runs>>

\* simulate_fcfs_algorithm reads process_id only to count the rows, so a row
\* of the model carries the two columns it computes with.
FcfsRows == [arrival_time : FcfsArrivalTimes, burst_time : BurstTimes]
FcfsTables == UNION {[Range(0, k) -> FcfsRows] : k \in 0..MaxRows}

NoResult == [n |-> 0, throughput |-> 0, cpu_util |-> 0, awt |-> 0, att |-> 0, art |-> 0]

\* The locals of a call that is not running.
FcfsNoCall ==
    [pc |-> "idle", data |-> Empty, index |-> <<>>, n |-> 0, i |-> 0,
     service_time |-> Empty, waiting_t |-> Empty, turn_around_t |-> Empty,
     outcome |-> "none", result |-> NoResult]

\* A table the specification accepts: at least one row, no negative arrival
\* (every burst_time of the model is positive).
FcfsValid(data) ==
    /\ DOMAIN data # {}
    /\ \A l \in DOMAIN data : data[l].arrival_time >= 0

\* FCFS.py as imported: idle_time = 0.  all_valid is a history variable: every
\* table passed so far was valid.
FcfsLoaded == [idle_time |-> 0, all_valid |-> TRUE] @@ FcfsNoCall

\* series[key] of a column of the sorted DataFrame.  The index of the sorted
\* frame is an integer index, so an integer key is looked up as a LABEL, not
\* as a position in the sorted order.
SeriesGetItem(m, column, key) ==
    IF column = "burst_time" THEN m.data[key].burst_time
    ELSE m.data[key].arrival_time

\* simulate_fcfs_algorithm, from entry to the start of the loop of
\* calculate_waiting_time.
FcfsEnter(m, data) ==
    LET k == Cardinality(DOMAIN data)
    IN  [m EXCEPT !.pc = "walk", !.data = data, !.index = sort_values(data),
                  !.n = k, !.i = 1,
                  !.all_valid = (m.all_valid /\ FcfsValid(data)),
                  !.waiting_t = [j \in Range(0, k) |-> 0],
                  !.turn_around_t = [j \in Range(0, k) |-> 0],
                  !.service_time = [j \in Range(0, k) |-> 0],
                  !.outcome = "none", !.result = NoResult]

\* One iteration of the loop of calculate_waiting_time.
FcfsWaitStep(m) ==
    LET i == m.i
        st == m.service_time[i - 1] + SeriesGetItem(m, "burst_time", i - 1)
        w == st - SeriesGetItem(m, "arrival_time", i)
    IN  [m EXCEPT !.service_time[i] = st,
                  !.waiting_t[i] = IF w < 0 THEN 0 ELSE w,
                  !.idle_time = IF w < 0 THEN @ + (-w) ELSE @,
                  !.i = i + 1]

\* calculate_turnaround_time and the aggregate statistics.
FcfsFinish(m) ==
    LET tat == [j \in Range(0, m.n) |-> SeriesGetItem(m, "burst_time", j) + m.waiting_t[j]]
        total_waiting_t == ListSum(m.waiting_t, m.n)
        total_turn_around_t == ListSum(tat, m.n)
        total_burst_t == SeqSum([l \in DOMAIN m.data |-> m.data[l].burst_time], m.index)
        busy == total_burst_t + m.idle_time
        done == [m EXCEPT !.pc = "done", !.turn_around_t = tat]
    IN  IF busy = 0 \/ m.n = 0
        THEN [done EXCEPT !.outcome = "ZeroDivisionError"]
        ELSE [done EXCEPT !.outcome = "returned",
                 !.result = [n |-> m.n,
                             throughput |-> Format4(m.n, busy * get_cpu_time_unit),
                             cpu_util |-> Format2(total_burst_t, busy),
                             awt |-> Format4(total_waiting_t * get_cpu_time_unit, m.n),
                             att |-> Format4(total_turn_around_t * get_cpu_time_unit, m.n),
                             art |-> Format4(total_waiting_t * get_cpu_time_unit, m.n)]]

\* The call has returned or raised: its locals are gone, the global stays.
FcfsLeave(m) == [idle_time |-> m.idle_time, all_valid |-> m.all_valid] @@ FcfsNoCall

\* The rest of a call from the state m
FcfsStep(m) == IF m.i < m.n THEN FcfsWaitStep(m) ELSE FcfsFinish(m)

FCFS_Call ==
    /\ fcfs.pc = "idle"
    /\ runs < MaxRuns
    /\ \E data \in FcfsTables : fcfs' = FcfsEnter(fcfs, data)
    /\ runs' = runs + 1
    /\ UNCHANGED np

FCFS_WaitStep ==
    /\ fcfs.pc = "walk"
    /\ fcfs.i < fcfs.n
    /\ fcfs' = FcfsStep(fcfs)
    /\ UNCHANGED <<np, runs>>

FCFS_Finish ==
    /\ fcfs.pc = "walk"
    /\ fcfs.i >= fcfs.n
    /\ fcfs' = FcfsStep(fcfs)
    /\ UNCHANGED <<np, runs>>

FCFS_Return ==
    /\ fcfs.pc = "done"
    /\ fcfs' = FcfsLeave(fcfs)
    /\ UNCHANGED <<np, runs>>

\* ------------------------------------------------------------------------
\* priority_np.py
\* ------------------------------------------------------------------------

NpRows == [process_id : 1..MaxProcs, arrival_time : ArrivalTimes,
           burst_time : BurstTimes, priority : Priorities]
NpTables == UNION {[Range(0, k) -> NpRows] : k \in 0..MaxProcs}

\* The locals of a call that is not running.  dirty and log are history
\* variables: dirty records that the call was entered with idle_time left
\* over from an earlier call, log lists the dispatches of the call.
NpNoCall ==
    [pc |-> "idle", process_data |-> Empty, et |-> Empty, tat |-> Empty,
     normal_queue |-> <<>>, ready_queue |-> <<>>,
     current_time |-> 0, last_start_time |-> 0,
     outcome |-> "none", result |-> NoResult,
     dirty |-> FALSE, log |-> <<>>]

\* priority_np.py as imported: idle_time = 0, n declared but not yet bound
\* (it is bound by the first call before anything reads it).
NpLoaded == [idle_time |-> 0, n |-> 0] @@ NpNoCall

\* The tuple put into the PriorityQueue; its fifth component is a history
\* value (the row the tuple was built from) that takes no part in the order.
ReadyEntry(key, value) ==
    <<value.priority, value.burst_time, value.arrival_time, value.process_id, key>>

\* Python's tuple comparison a < b of (priority, burst, arrival, id)
TupleLess(a, b) ==
    \/ a[1] < b[1]
    \/ a[1] = b[1] /\ a[2] < b[2]
    \/ a[1] = b[1] /\ a[2] = b[2] /\ a[3] < b[3]
    \/ a[1] = b[1] /\ a[2] = b[2] /\ a[3] = b[3] /\ a[4] < b[4]

\* position of the entry PriorityQueue.get() returns: a least tuple
MinPos(q) ==
    CHOOSE p \in 1..Len(q) :
        /\ \A o \in 1..Len(q) : ~TupleLess(q[o], q[p])
        /\ \A o \in 1..(p - 1) : TupleLess(q[p], q[o])

RemoveAt(q, p) == SubSeq(q, 1, p - 1) \o SubSeq(q, p + 1, Len(q))

RECURSIVE PutArrived(_, _, _, _)
\* the for loop of insert_ready_queue over normal_queue.values()
PutArrived(ready_queue, values, current_time, last_start_time) ==
    IF values = <<>> THEN ready_queue
    ELSE LET item == Head(values)
             inWindow == /\ last_start_time < item.value.arrival_time
                         /\ item.value.arrival_time <= current_time
         IN  PutArrived(IF inWindow
                        THEN Append(ready_queue, ReadyEntry(item.key, item.value))
                        ELSE ready_queue,
                        Tail(values), current_time, last_start_time)

\* insert_ready_queue without the lower end of the window
insert_ready_queue_arrived(ready_queue, normal_queue, current_time, last_start_time) ==
    PutArrived(ready_queue, normal_queue, current_time, -1)

insert_ready_queue(ready_queue, normal_queue, current_time, last_start_time) ==
    PutArrived(ready_queue, normal_queue, current_time, last_start_time)

Keys(normal_queue) == {normal_queue[p].key : p \in 1..Len(normal_queue)}

\* del normal_queue[k] for a key that is present
DelKey(normal_queue, k) ==
    SelectSeq(normal_queue, LAMBDA item : item.key # k)

\* process_data.to_dict(orient="index") of the sorted frame: the rows keyed
\* by their label, in sorted order
to_dict(data, index) == [p \in 1..Len(index) |-> [key |-> index[p], value |-> data[index[p]]]]

\* simulate_priority_np_algorithm from entry to the top of the while loop,
\* apart from the reset of idle_time.
NpEnterLocals(m, data) ==
    LET k == Cardinality(DOMAIN data)
    IN  [m EXCEPT !.pc = "loop", !.n = k, !.process_data = data,
                  !.et = [l \in Range(0, k) |-> 0],
                  !.tat = [l \in Range(0, k) |-> 0],
                  !.normal_queue = to_dict(data, sort_values(data)),
                  !.ready_queue = <<>>,
                  !.current_time = 0, !.last_start_time = -1,
                  !.outcome = "none", !.result = NoResult,
                  !.dirty = (m.idle_time # 0), !.log = <<>>]

\* The entry without "idle_time = 0".
NpEnterKeepIdle(m, data) == NpEnterLocals(m, data)

NpEnter(m, data) == [NpEnterLocals(m, data) EXCEPT !.idle_time = 0]

\* ready_queue = insert_ready_queue(...) at the top of the loop
NpInsert(m) ==
    [m EXCEPT !.pc = "branch",
              !.ready_queue = insert_ready_queue(m.ready_queue, m.normal_queue,
                                                 m.current_time, m.last_start_time)]

\* The common tail of both dispatching branches: del normal_queue[k] and the
\* write of the exit time, or the KeyError that del raises.
NpComplete(m, k) ==
    IF k \notin Keys(m.normal_queue)
    THEN [m EXCEPT !.pc = "done", !.outcome = "KeyError"]
    ELSE [m EXCEPT !.pc = "loop",
                   !.normal_queue = DelKey(m.normal_queue, k),
                   !.et[k] = m.current_time]

\* Case 1: the ready queue has an entry.
NpSelect(m) ==
    LET p == MinPos(m.ready_queue)
        process == m.ready_queue[p]
        started == [m EXCEPT !.ready_queue = RemoveAt(m.ready_queue, p),
                             !.last_start_time = m.current_time,
                             !.current_time = m.current_time + process[2],
                             !.log = Append(m.log,
                                        [row |-> process[5], via |-> "select",
                                         start |-> m.current_time,
                                         end |-> m.current_time + process[2]])]
    IN  NpComplete(started, process[4] - 1)

\* Case 2 without the accumulation "idle_time += arrival_time - current_time".
NpIdleAdvanceNoIdle(m) ==
    LET first == m.normal_queue[1]
        arrival == first.value.arrival_time
        gap == IF m.current_time < arrival THEN arrival - m.current_time ELSE 0
        begin == m.current_time + gap
        started == [m EXCEPT !.last_start_time = begin,
                             !.current_time = begin + first.value.burst_time,
                             !.log = Append(m.log,
                                        [row |-> first.key, via |-> "idle",
                                         start |-> begin,
                                         end |-> begin + first.value.burst_time])]
    IN  NpComplete(started, first.value.process_id - 1)

\* Case 2: the ready queue is empty and normal_queue is not.
NpIdleAdvance(m) ==
    LET first == m.normal_queue[1]
        arrival == first.value.arrival_time
        gap == IF m.current_time < arrival THEN arrival - m.current_time ELSE 0
        begin == m.current_time + gap
        started == [m EXCEPT !.idle_time = m.idle_time + gap,
                             !.last_start_time = begin,
                             !.current_time = begin + first.value.burst_time,
                             !.log = Append(m.log,
                                        [row |-> first.key, via |-> "idle",
                                         start |-> begin,
                                         end |-> begin + first.value.burst_time])]
    IN  NpComplete(started, first.value.process_id - 1)

\* Case 3 and what follows the loop: calculate_turnaround_time,
\* calculate_waiting_time and print_data.
NpFinish(m) ==
    LET data == m.process_data
        tat == [l \in Range(0, m.n) |-> m.et[l] - data[l].arrival_time]
        wt == [l \in Range(0, m.n) |-> tat[l] - data[l].burst_time]
        total_turnaround_time == ListSum(tat, m.n)
        total_waiting_time == ListSum(wt, m.n)
        total_burst_t == ListSum([l \in Range(0, m.n) |-> data[l].burst_time], m.n)
        busy == total_burst_t + m.idle_time
        done == [m EXCEPT !.pc = "done"]
    IN  IF m.n = 0
        THEN [done EXCEPT !.outcome = "ZeroDivisionError"]
        ELSE [done EXCEPT !.outcome = "returned", !.tat = tat,
                 !.result = [n |-> m.n,
                             throughput |-> Format4(m.n, busy * get_cpu_time_unit),
                             cpu_util |-> Format2(total_burst_t, busy),
                             awt |-> Format4(total_waiting_time * get_cpu_time_unit, m.n),
                             att |-> Format4(total_turnaround_time * get_cpu_time_unit, m.n),
                             art |-> Format4(total_waiting_time * get_cpu_time_unit, m.n)]]

\* The call has returned or raised: its locals are gone, the globals stay.
NpLeave(m) == [idle_time |-> m.idle_time, n |-> m.n] @@ NpNoCall

\* One pass through the body of "while True", by position
NpStep(m) ==
    IF m.pc = "loop" THEN NpInsert(m)
    ELSE IF m.ready_queue # <<>> THEN NpSelect(m)
    ELSE IF Len(m.normal_queue) # 0 THEN NpIdleAdvance(m)
    ELSE NpFinish(m)

NP_Call ==
    /\ np.pc = "idle"
    /\ \E data \in NpTables : np' = NpEnter(np, data)
    /\ UNCHANGED <<fcfs, runs>>

NP_Insert ==
    /\ np.pc = "loop"
    /\ np' = NpStep(np)
    /\ UNCHANGED <<fcfs, runs>>

NP_Select ==
    /\ np.pc = "branch"
    /\ np.ready_queue # <<>>
    /\ np' = NpStep(np)
    /\ UNCHANGED <<fcfs, runs>>

NP_IdleAdvance ==
    /\ np.pc = "branch"
    /\ np.ready_queue = <<>>
    /\ Len(np.normal_queue) # 0
    /\ np' = NpStep(np)
    /\ UNCHANGED <<fcfs, runs>>

NP_Finish ==
    /\ np.pc = "branch"
    /\ np.ready_queue = <<>>
    /\ Len(np.normal_queue) = 0
    /\ np' = NpStep(np)
    /\ UNCHANGED <<fcfs, runs>>

NP_Return ==
    /\ np.pc = "done"
    /\ np' = NpLeave(np)
    /\ UNCHANGED <<fcfs, runs>>

InitFCFS ==
    /\ fcfs = FcfsLoaded
    /\ np = NpLoaded
    /\ runs = 0

NextFCFS ==
    \/ FCFS_Call
    \/ FCFS_WaitStep
    \/ FCFS_Finish
    \/ FCFS_Return

\* Calls of simulate_fcfs_algorithm in one Python process
SpecFCFS == InitFCFS /\ [][NextFCFS]_vars

InitNP ==
    /\ fcfs = FcfsLoaded
    /\ np = NpLoaded
    /\ runs = 0

NextNP ==
    \/ NP_Call
    \/ NP_Insert
    \/ NP_Select
    \/ NP_IdleAdvance
    \/ NP_Finish
    \/ NP_Return

\* Calls of simulate_priority_np_algorithm in one Python process
SpecNP == InitNP /\ [][NextNP]_vars

\* ------------------------------------------------------------------------
\* Inputs the claims speak of
\* ------------------------------------------------------------------------

\* A Priority table the specification accepts: at least one row and unique
\* process ids (every id, arrival and burst of the model is in range).
NpValid(data) ==
    /\ DOMAIN data # {}
    /\ \A a, b \in DOMAIN data : a # b => data[a].process_id # data[b].process_id

\* The ids are 1..n in row order, as "k = process_id - 1" takes them to be.
NpIdsByRow(data) == \A l \in DOMAIN data : data[l].process_id = l + 1

\* The rows are supplied in ascending arrival order.
InArrivalOrder(data) ==
    \A a, b \in DOMAIN data : a < b => data[a].arrival_time <= data[b].arrival_time

\* The table with its rows rearranged in the order sort_values gives
SortedTable(data) ==
    LET index == sort_values(data)
    IN  [l \in DOMAIN data |-> data[index[l + 1]]]

RECURSIVE FcfsWalk(_)
FcfsWalk(m) == IF m.pc = "done" THEN m ELSE FcfsWalk(FcfsStep(m))

\* simulate_fcfs_algorithm(data) called alone on a freshly imported module
FcfsAlone(data) == FcfsWalk(FcfsEnter(FcfsLoaded, data))

RECURSIVE NpOnRun(_, _)
\* s is m or a state the call passes through after m
NpOnRun(s, m) == s = m \/ (m.pc # "done" /\ NpOnRun(s, NpStep(m)))

\* s is a state simulate_priority_np_algorithm(data) passes through when it
\* is called alone on a freshly imported module
NpOnAloneRun(s, data) == NpOnRun(s, NpEnter(NpLoaded, data))

\* Two half-open intervals [s1, c1) and [s2, c2) share an instant
Overlap(s1, c1, s2, c2) == s1 < c2 /\ s2 < c1

Max(a, b) == IF a >= b THEN a ELSE b

\* ------------------------------------------------------------------------
\* C1  FCFS run isolation
\* ------------------------------------------------------------------------

\* C1: after any earlier calls with valid tables, a call of
\* simulate_fcfs_algorithm with a valid table ends with the idle time,
\* cpu_util and throughput that the same call gives on a fresh module.
C1_FcfsRunIsolation ==
    (fcfs.pc = "done" /\ fcfs.all_valid) =>
        LET alone == FcfsAlone(fcfs.data)
        IN  /\ fcfs.idle_time = alone.idle_time
            /\ fcfs.outcome = alone.outcome
            /\ fcfs.result.cpu_util = alone.result.cpu_util
            /\ fcfs.result.throughput = alone.result.throughput

\* ------------------------------------------------------------------------
\* C2  Priority run isolation
\* ------------------------------------------------------------------------

\* C2: whatever calls came before, every state a call of
\* simulate_priority_np_algorithm passes through (the globals idle_time and
\* n, the clock, the queues, the exit times, the outcome and the returned
\* record) is a state of the same call made alone on a fresh module.
C2_NpRunIsolation ==
    np.pc # "idle" => NpOnAloneRun([np EXCEPT !.dirty = FALSE], np.process_data)

\* A call on a valid table has returned, and it was entered with idle time
\* left over by an earlier call.
C2_Witness ==
    /\ np.pc = "done"
    /\ np.dirty
    /\ np.outcome = "returned"
    /\ NpValid(np.process_data)

\* ------------------------------------------------------------------------
\* C3, C4  Priority order and tie-break at every dispatch
\* ------------------------------------------------------------------------

\* rows dispatched by the first j entries of the log
Dispatched(log, j) == {log[d].row : d \in 1..j}

\* C3: (stated for the valid tables whose ids are 1..n in row order) when a
\* process starts at time t, no process that has not executed yet and has
\* arrived by t has a strictly lower priority number.
C3_PriorityOrder ==
    (NpValid(np.process_data) /\ NpIdsByRow(np.process_data)) =>
        \A j \in 1..Len(np.log) :
            \A q \in DOMAIN np.process_data \ Dispatched(np.log, j) :
                np.process_data[q].arrival_time <= np.log[j].start
                    => np.process_data[q].priority
                           >= np.process_data[np.log[j].row].priority

\* C4: (stated for the valid tables whose ids are 1..n in row order) when a
\* process starts at time t, no process of equal priority that has not
\* executed yet and has arrived by t has a shorter burst, or the same burst
\* and an earlier arrival, or the same burst and arrival and a smaller id.
C4_TieBreak ==
    (NpValid(np.process_data) /\ NpIdsByRow(np.process_data)) =>
        \A j \in 1..Len(np.log) :
            \A q \in DOMAIN np.process_data \ Dispatched(np.log, j) :
                LET P == np.process_data[np.log[j].row]
                    Q == np.process_data[q]
                IN  (Q.priority = P.priority /\ Q.arrival_time <= np.log[j].start)
                        => ~TupleLess(ReadyEntry(q, Q), ReadyEntry(np.log[j].row, P))

\* ------------------------------------------------------------------------
\* C5, C7, C8  FCFS timeline
\* ------------------------------------------------------------------------

FcfsStart(m, l) == m.data[l].arrival_time + m.waiting_t[l]
FcfsCompletion(m, l) == m.data[l].arrival_time + m.turn_around_t[l]

\* C5: (stated for the valid tables whose rows are in arrival order) the
\* intervals [start, completion) that the computed waiting and turnaround
\* times give do not overlap.
C5_FcfsSingleOccupancy ==
    (fcfs.pc = "done" /\ FcfsValid(fcfs.data) /\ InArrivalOrder(fcfs.data)) =>
        \A a, b \in DOMAIN fcfs.data :
            a # b => ~Overlap(FcfsStart(fcfs, a), FcfsCompletion(fcfs, a),
                              FcfsStart(fcfs, b), FcfsCompletion(fcfs, b))

RECURSIVE RefStart(_, _)
\* start of row l on the reference single-CPU FCFS timeline
RefStart(data, l) ==
    IF l = 0 THEN data[0].arrival_time
    ELSE Max(RefStart(data, l - 1) + data[l - 1].burst_time, data[l].arrival_time)

RECURSIVE RefIdle(_, _)
\* sum of the positive gaps before rows 1..l of the reference timeline
RefIdle(data, l) ==
    IF l = 0 THEN 0
    ELSE RefIdle(data, l - 1)
         + Max(0, data[l].arrival_time
                  - (RefStart(data, l - 1) + data[l - 1].burst_time))

\* C7: on the first call of a fresh module with a valid table whose rows are
\* in arrival order, the waiting times and idle_time are those of the
\* reference FCFS timeline.
C7_FcfsTimeline ==
    (fcfs.pc = "done" /\ runs = 1 /\ FcfsValid(fcfs.data) /\ InArrivalOrder(fcfs.data)) =>
        /\ \A l \in DOMAIN fcfs.data :
               fcfs.waiting_t[l] = RefStart(fcfs.data, l) - fcfs.data[l].arrival_time
        /\ fcfs.idle_time = RefIdle(fcfs.data, fcfs.n - 1)

\* C8: on the first call of a fresh module with a valid table, whatever the
\* row order, the idle time and the returned metrics are those of the same
\* rows supplied in arrival order.
C8_FcfsArrivalOrder ==
    (fcfs.pc = "done" /\ runs = 1 /\ FcfsValid(fcfs.data)) =>
        LET sorted == FcfsAlone(SortedTable(fcfs.data))
        IN  /\ fcfs.result = sorted.result
            /\ fcfs.idle_time = sorted.idle_time

\* ------------------------------------------------------------------------
\* C6  Priority single occupancy
\* ------------------------------------------------------------------------

NpCompletion(m, l) == m.et[l]
NpStart(m, l) == m.et[l] - m.process_data[l].burst_time

\* C6: for every valid table, when the call has returned, every process
\* starts (exit time minus burst) no earlier than it arrives and no two
\* intervals [start, completion) overlap.
C6_NpSingleOccupancy ==
    (np.pc = "done" /\ np.outcome = "returned" /\ NpValid(np.process_data)) =>
        /\ \A l \in DOMAIN np.process_data :
               NpStart(np, l) >= np.process_data[l].arrival_time
        /\ \A a, b \in DOMAIN np.process_data :
               a # b => ~Overlap(NpStart(np, a), NpCompletion(np, a),
                                 NpStart(np, b), NpCompletion(np, b))

\* ------------------------------------------------------------------------
\* C9, C10  Error handling
\* ------------------------------------------------------------------------

\* C9: a call with an empty table ends with the dedicated EmptyProcessSet
\* error, in both simulators.
C9_EmptyInput ==
    /\ (fcfs.pc = "done" /\ fcfs.n = 0) => fcfs.outcome = "EmptyProcessSet"
    /\ (np.pc = "done" /\ np.n = 0) => np.outcome = "EmptyProcessSet"

\* A table with a duplicate process_id
NpInvalid(data) ==
    \E a, b \in DOMAIN data : a # b /\ data[a].process_id = data[b].process_id

\* A table with a negative arrival_time
FcfsInvalid(data) == \E l \in DOMAIN data : data[l].arrival_time < 0

\* C10: a call with an invalid table dispatches nothing, leaves the clock
\* and idle_time alone and ends with a validation error.
C10_InvalidInputRejected ==
    /\ (np.pc # "idle" /\ NpInvalid(np.process_data)) =>
           /\ np.log = <<>>
           /\ np.current_time = 0
           /\ np.pc = "done" => np.outcome = "ValidationError"
    /\ (fcfs.pc # "idle" /\ FcfsInvalid(fcfs.data)) =>
           /\ fcfs.i = 1
           /\ fcfs.pc = "done" => fcfs.outcome = "ValidationError"

\* ------------------------------------------------------------------------
\* C11  Exactly-once scheduling
\* ------------------------------------------------------------------------

\* C11: for every table with unique ids (not necessarily 1..n in row order),
\* every dispatched process has left the pending pool, no process is
\* dispatched twice, the exit time written at a dispatch is the one of the
\* process dispatched, and no removal fails.
C11_ExactlyOnce ==
    (np.pc # "idle" /\ NpValid(np.process_data)) =>
        /\ np.outcome # "KeyError"
        /\ \A j \in 1..Len(np.log) :
               /\ np.log[j].row \notin Keys(np.normal_queue)
               /\ np.et[np.log[j].row] = np.log[j].end
        /\ \A i, j \in 1..Len(np.log) : i # j => np.log[i].row # np.log[j].row

\* ------------------------------------------------------------------------
\* C12  Non-negativity
\* ------------------------------------------------------------------------

\* waiting time calculate_waiting_time derives for row l: tat - burst_time
NpWaiting(m, l) == m.tat[l] - m.process_data[l].burst_time

NpTotalBurst(m) ==
    ListSum([l \in Range(0, m.n) |-> m.process_data[l].burst_time], m.n)

FcfsTotalBurst(m) ==
    ListSum([l \in Range(0, m.n) |-> m.data[l].burst_time], m.n)

\* C12: for every table with at least one row, after any earlier calls, a
\* call that returns has waiting_time >= 0 for every process,
\* idle_time >= 0 and 0 < total_burst / (total_burst + idle_time) <= 1, in
\* both simulators.
C12_NonNegativity ==
    /\ (fcfs.pc = "done" /\ fcfs.n >= 1) =>
           /\ fcfs.outcome = "returned"
           /\ \A l \in DOMAIN fcfs.data : fcfs.waiting_t[l] >= 0
           /\ fcfs.idle_time >= 0
           /\ 0 < FcfsTotalBurst(fcfs)
           /\ FcfsTotalBurst(fcfs) <= FcfsTotalBurst(fcfs) + fcfs.idle_time
    /\ (np.pc = "done" /\ np.outcome = "returned" /\ np.n >= 1) =>
           /\ \A l \in DOMAIN np.process_data : NpWaiting(np, l) >= 0
           /\ np.idle_time >= 0
           /\ 0 < NpTotalBurst(np)
           /\ NpTotalBurst(np) <= NpTotalBurst(np) + np.idle_time

\* ------------------------------------------------------------------------
\* C13  Priority elapsed-time accounting
\* ------------------------------------------------------------------------

RECURSIVE LogBurst(_, _)
\* sum of the bursts of the processes dispatched so far
LogBurst(data, log) ==
    IF log = <<>> THEN 0
    ELSE data[Head(log).row].burst_time + LogBurst(data, Tail(log))

\* some process executes during the instant [t, t + 1)
Executing(log, t) == \E j \in 1..Len(log) : log[j].start <= t /\ t < log[j].end

\* the unit instants of [0, upto) during which nothing executes
IdleInstants(log, upto) == {t \in 0..(upto - 1) : ~Executing(log, t)}

\* C13: in every state of a call, current_time is the sum of the bursts of
\* the processes executed so far plus idle_time, and idle_time is the length
\* of the part of [0, current_time) in which no process executes; when the
\* call returns, total_burst + idle_time is the elapsed time current_time,
\* so cpu_util is the busy fraction of the time elapsed since 0.
C13_ElapsedTime ==
    np.pc # "idle" =>
        /\ np.current_time = LogBurst(np.process_data, np.log) + np.idle_time
        /\ np.idle_time = Cardinality(IdleInstants(np.log, np.current_time))
        /\ np.outcome = "returned" =>
               /\ NpTotalBurst(np) + np.idle_time = np.current_time
               /\ np.result.cpu_util =
                      Format2(np.current_time
                                  - Cardinality(IdleInstants(np.log, np.current_time)),
                              np.current_time)

\* A call has returned after the CPU idled and at least two dispatches.
C13_Witness ==
    /\ np.pc = "done"
    /\ np.outcome = "returned"
    /\ np.idle_time > 0
    /\ Len(np.log) >= 2

\* ------------------------------------------------------------------------
\* C14  Every process passes through the ready queue
\* ------------------------------------------------------------------------

\* C14: (stated for the valid tables whose ids are 1..n in row order) every
\* process that executes was taken from the ready queue.  A dispatch logged
\* "idle" is made by Case 2, which takes the process from normal_queue while
\* the ready queue is empty; with ids in row order a process leaves
\* normal_queue when it executes, so such a process was never in the ready
\* queue.
C14_ThroughReadyQueue ==
    (NpValid(np.process_data) /\ NpIdsByRow(np.process_data)) =>
        \A j \in 1..Len(np.log) : np.log[j].via = "select"

\* ------------------------------------------------------------------------
\* C15  Admission window
\* ------------------------------------------------------------------------

\* rows that have not executed yet
NotExecuted(m) == DOMAIN m.process_data \ Dispatched(m.log, Len(m.log))

\* the time the previously dispatched process began executing
LastStart(m) == IF m.log = <<>> THEN -1 ELSE m.log[Len(m.log)].start

\* rows the entries q[from..Len(q)] of a ready queue were built from
RowsFrom(q, from) == {q[p][5] : p \in from..Len(q)}

\* C15: for every valid table, a call of insert_ready_queue appends to the
\* ready queue one entry for each process that has not executed yet and whose
\* arrival_time is in the window (last start, current_time], and nothing
\* else; it leaves normal_queue, current_time and idle_time unchanged.
C15_AdmissionWindow ==
    [][(np.pc = "loop" /\ np'.pc = "branch" /\ NpValid(np.process_data)) =>
          /\ SubSeq(np'.ready_queue, 1, Len(np.ready_queue)) = np.ready_queue
          /\ RowsFrom(np'.ready_queue, Len(np.ready_queue) + 1) =
                 {l \in NotExecuted(np) :
                      /\ LastStart(np) < np.process_data[l].arrival_time
                      /\ np.process_data[l].arrival_time <= np.current_time}
          /\ Len(np'.ready_queue) - Len(np.ready_queue) =
                 Cardinality(RowsFrom(np'.ready_queue, Len(np.ready_queue) + 1))
          /\ np'.normal_queue = np.normal_queue
          /\ np'.current_time = np.current_time
          /\ np'.idle_time = np.idle_time]_vars

\* ------------------------------------------------------------------------
\* C16  IDLE-ADVANCE
\* ------------------------------------------------------------------------

\* the loop is at its branch with an empty ready queue and a non-empty
\* pending pool, and takes the branch
IdleAdvanceTaken ==
    /\ np.pc = "branch"
    /\ np.ready_queue = <<>>
    /\ np.normal_queue # <<>>
    /\ np'.pc # "branch"

\* C16: for every valid table, a pass that finds the ready queue empty and
\* the pending pool non-empty dispatches a pending process of minimum
\* arrival_time; idle_time grows by arrival_time - current_time when that is
\* positive and by nothing otherwise; the process starts at the later of
\* current_time and its arrival_time; and its exit time is recorded as
\* start + burst_time.
C16_IdleAdvance ==
    [][(IdleAdvanceTaken /\ NpValid(np.process_data)) =>
          /\ Len(np'.log) = Len(np.log) + 1
          /\ LET d == np'.log[Len(np'.log)]
                 arrival == np.process_data[d.row].arrival_time
             IN  /\ d.row \in Keys(np.normal_queue)
                 /\ \A l \in Keys(np.normal_queue) :
                        arrival <= np.process_data[l].arrival_time
                 /\ IF np.current_time < arrival
                    THEN /\ np'.idle_time = np.idle_time + (arrival - np.current_time)
                         /\ d.start = arrival
                    ELSE /\ np'.idle_time = np.idle_time
                         /\ d.start = np.current_time
                 /\ d.end = d.start + np.process_data[d.row].burst_time
                 /\ np'.outcome # "KeyError"
                 /\ np'.et[d.row] = d.end]_vars

\* ------------------------------------------------------------------------
\* C17  Termination
\* ------------------------------------------------------------------------

\* The body of "while True" has no blocking call: a pass that can be taken
\* is taken.
NpLoopPass == NP_Insert \/ NP_Select \/ NP_IdleAdvance \/ NP_Finish

\* The tables of n >= 1 rows whose ids are 1..n in row order
NpTablesInOrder == {data \in NpTables : NpValid(data) /\ NpIdsByRow(data)}

\* A call of simulate_priority_np_algorithm on such a table
NP_CallInOrder ==
    /\ np.pc = "idle"
    /\ \E data \in NpTablesInOrder : np' = NpEnter(np, data)
    /\ UNCHANGED <<fcfs, runs>>

NextNPLive ==
    \/ NP_CallInOrder
    \/ NP_Insert
    \/ NP_Select
    \/ NP_IdleAdvance
    \/ NP_Finish
    \/ NP_Return

\* Calls of simulate_priority_np_algorithm on such tables, the loop of each
\* call running on
SpecNPLive == InitNP /\ [][NextNPLive]_vars /\ WF_vars(NpLoopPass)

\* a call is in its main loop on a table of n >= 1 rows with unique ids 1..n
\* in row order
NpRunning ==
    /\ np.pc \in {"loop", "branch"}
    /\ NpValid(np.process_data)
    /\ NpIdsByRow(np.process_data)

\* the loop of such a call is over
NpLoopOver ==
    /\ np.pc = "done"
    /\ NpValid(np.process_data)
    /\ NpIdsByRow(np.process_data)

\* the loop ended by the break of Case 3 after n dispatches, one of each
\* row, with both containers empty and every exit time written
NpAllDone ==
    /\ np.outcome = "returned"
    /\ Len(np.log) = np.n
    /\ Dispatched(np.log, Len(np.log)) = DOMAIN np.process_data
    /\ np.normal_queue = <<>>
    /\ np.ready_queue = <<>>
    /\ \A j \in 1..Len(np.log) : np.et[np.log[j].row] = np.log[j].end

\* C17: a call on a valid table of n >= 1 rows with ids 1..n in row order
\* eventually leaves the main loop, and it leaves it only through the DONE
\* branch, after exactly n dispatches, with the pending pool and the ready
\* queue empty and an exit time recorded for every process.
C17_Termination ==
    /\ [](NpLoopOver => NpAllDone)
    /\ NpRunning ~> NpLoopOver

C17_Witness ==
    /\ NpLoopOver
    /\ NpAllDone
    /\ np.n = 2
    /\ np.log[1].via = "idle"
    /\ np.log[2].via = "select"

\* ------------------------------------------------------------------------
\* C18  Ready queue consistency
\* ------------------------------------------------------------------------

\* C18: in every state of a call on a valid table, no process has two
\* entries in the ready queue, every process in the ready queue is still in
\* normal_queue and has arrived by current_time, no process has been
\* dispatched twice, and no del has raised KeyError.
C18_ReadyQueueConsistent ==
    (np.pc # "idle" /\ NpValid(np.process_data)) =>
        /\ \A p, q \in 1..Len(np.ready_queue) :
               p # q => np.ready_queue[p][5] # np.ready_queue[q][5]
        /\ \A p \in 1..Len(np.ready_queue) :
               /\ np.ready_queue[p][5] \in Keys(np.normal_queue)
               /\ np.ready_queue[p][3] <= np.current_time
        /\ \A i, j \in 1..Len(np.log) : i # j => np.log[i].row # np.log[j].row
        /\ np.outcome # "KeyError"
====
